---- MODULE Spec2Model ----
(***************************************************************************)
(* kunwind, src/modules.c: the per-process unwind registry.                *)
(*                                                                         *)
(*  - the RCU-protected unwind cache (unw_cache_find_entry,                *)
(*    unw_cache_add_entry, unw_cache_del_entry, unw_cache_clear and the    *)
(*    deferred free unw_cache_entry_rcu_free);                             *)
(*  - the module list (init_kunwind_stp_module, close_kunwind_stp_module,  *)
(*    add_module, init_modules_from_proc_info, release_unwind_info).       *)
(*                                                                         *)
(* Kernel primitives are modelled by their documented behaviour, one       *)
(* atomic step per primitive: hash_add_rcu / hash_del_rcu on an hlist,     *)
(* rcu_read_lock / rcu_read_unlock / call_rcu / synchronize_rcu, kzalloc,  *)
(* find_vma, get_user_pages, vmap / vunmap, put_page, get_user.            *)
(***************************************************************************)
EXTENDS Integers, Sequences, FiniteSets, TLC

\* ------------------------------------------------------------------ bounds
\* entries kzalloc hands out before it only fails
MaxEntries == 2
\* modules a registry is populated with
MaxMods == 2

\* the threads that run unwind sessions on one registry
Threads == {1, 2}
\* the entries there can be
Ids == 1..MaxEntries
\* instruction pointers looked up, and the frame contents cached for them
PCs == {1, 2, 3}
Vals == {1, 2}
\* the buckets of mods->unw_cache
Buckets == {0, 1}

\* the null pointer
NULL == 0

VARIABLES
  hfirst,    \* mods->unw_cache: bucket -> first entry of the chain
  enext,     \* entry->hlist.next
  epprev,    \* entry->hlist.pprev: NULL (unhashed), HeadRef(b) or an entry
  frame,     \* entry->frame: [pc, val]
  kfreed,    \* entry -> number of kfree() calls made on it
  nalloc,    \* entries handed out by kzalloc so far
  th,        \* thread -> [pc, op, key, val, entry, bkt]: position and locals
  inrcu,     \* thread -> inside rcu_read_lock()/rcu_read_unlock()
  rcu_cbs,   \* callbacks queued by call_rcu: [e, by, wait]
  syncwait,  \* thread -> readers its synchronize_rcu() still waits for
  tracing,   \* whether the call history below is recorded
  hist,      \* the last two completed cache calls: [op, key, val, res]
  snap,      \* the hash table as it was when the latest call began
  reg,       \* the registry: "live", "closing", "clearing", "freed"
  modules,   \* mods->stp_modules, in list order
  loose,     \* resources no linked module owns: still held, or released twice
  call,      \* the population call in progress, or the last one made
  closed     \* the latest close_kunwind_stp_module: acquired and released

cachevars == <<hfirst, enext, epprev, frame, kfreed, nalloc>>
rcuvars == <<inrcu, rcu_cbs, syncwait>>
ghostvars == <<tracing, hist, snap>>
modvars == <<reg, modules, loose, call, closed>>
vars == <<hfirst, enext, epprev, frame, kfreed, nalloc, th, inrcu, rcu_cbs,
          syncwait, tracing, hist, snap, reg, modules, loose, call, closed>>

\* ------------------------------------------------------------ hash table

\* jhash(key, sizeof(*key), 0) reduced to a bucket index: a fixed function of
\* key->pc under which distinct keys may collide.
Hash(k) == k % Cardinality(Buckets)

\* &mods->unw_cache[b].first as a value of hlist.pprev
HeadRef(b) == 0 - (b + 1)

RECURSIVE ChainFrom(_, _)
ChainFrom(e, fuel) ==
  IF e = NULL \/ fuel = 0 THEN << >>
  ELSE <<[e |-> e, frame |-> frame[e]]>> \o ChainFrom(enext[e], fuel - 1)

\* the cache as a lookup sees it: per bucket, the linked entries in chain
\* order with the frames they hold
Table == [b \in Buckets |-> ChainFrom(hfirst[b], MaxEntries + 1)]

\* !hlist_unhashed(&entry->hlist)
Linked(e) == epprev[e] # NULL

LinkedFor(k) == {e \in Ids : Linked(e) /\ frame[e].pc = k}

RECURSIVE FindFrom(_, _, _)
FindFrom(e, k, fuel) ==
  IF e = NULL \/ fuel = 0 THEN NULL
  ELSE IF k = frame[e].pc THEN e
  ELSE FindFrom(enext[e], k, fuel - 1)

\* unw_cache_find_entry run to completion on the current table
unw_cache_find_entry(k) == FindFrom(hfirst[Hash(k)], k, MaxEntries + 1)

\* ---------------------------------------------------------- RCU primitives

\* threads inside a read-side critical section
Readers == {u \in Threads : inrcu[u]}

\* rcu_read_unlock by t: t no longer holds up any grace period that was
\* waiting for it
Quiesce(cbs, t) == {[cb EXCEPT !.wait = cb.wait \ {t}] : cb \in cbs}

\* call_rcu(&entry->rcu, unw_cache_entry_rcu_free) by t: the callback may run
\* once every reader that is inside a critical section now has left it
call_rcu(t, e) == rcu_cbs \cup {[e |-> e, by |-> t, wait |-> Readers]}

\* hash_del_rcu(&entry->hlist), i.e. hlist_del_init_rcu: unlinks a hashed
\* node, leaves its next pointer for readers standing on it, and is a no-op
\* on a node that is already unhashed
hash_del_rcu(e) ==
  IF epprev[e] = NULL
  THEN UNCHANGED <<hfirst, enext, epprev>>
  ELSE LET pp == epprev[e]
           nx == enext[e]
       IN /\ hfirst' = IF pp < 0 THEN [hfirst EXCEPT ![0 - pp - 1] = nx]
                        ELSE hfirst
          /\ enext' = IF pp > 0 THEN [enext EXCEPT ![pp] = nx] ELSE enext
          /\ epprev' = [x \in Ids |->
                          IF x = e THEN NULL
                          ELSE IF x = nx THEN pp
                          ELSE epprev[x]]

\* hash_add_rcu(mods->unw_cache, &entry->hlist, hash): hlist_add_head_rcu
hash_add_rcu(e, b) ==
  LET first == hfirst[b]
  IN /\ enext' = [enext EXCEPT ![e] = first]
     /\ epprev' = [x \in Ids |->
                     IF x = e THEN HeadRef(b)
                     ELSE IF x = first THEN e
                     ELSE epprev[x]]
     /\ hfirst' = [hfirst EXCEPT ![b] = e]

\* kfree(entry): the memory is returned; what it held is indeterminate from
\* now on, so the model keeps no contents for it
kfree(e) ==
  /\ kfreed' = [kfreed EXCEPT ![e] = @ + 1]
  /\ frame' = [frame EXCEPT ![e] = [pc |-> 0, val |-> 0]]
  /\ enext' = [enext EXCEPT ![e] = NULL]

\* ------------------------------------------------------------ call history

Last2(s) == IF Len(s) > 2 THEN SubSeq(s, Len(s) - 1, Len(s)) ELSE s

\* a cache call begins: remember the call and the table it started from.
\* The recorded caller makes two calls, about one instruction pointer, and
\* stops.
Begin(op, k, v) ==
  /\ tracing => (\/ hist = << >>
                  \/ (Len(hist) = 1 /\ (k = 0 \/ hist[1].key \in {0, k})))
  /\ snap' = (IF tracing THEN Table ELSE snap)
  /\ hist' = (IF tracing
              THEN Last2(Append(hist, [op |-> op, key |-> k, val |-> v,
                                       res |-> "running"]))
              ELSE hist)
  /\ UNCHANGED tracing

\* from now on the caller's calls are recorded
StartTrace ==
  /\ ~tracing
  /\ \A t \in Threads : th[t].pc = "idle"
  /\ tracing' = TRUE
  /\ UNCHANGED <<cachevars, th, rcuvars, hist, snap, modvars>>

\* the outcome of the call in progress
Outcome(res) ==
  /\ hist' = (IF tracing THEN [hist EXCEPT ![Len(hist)].res = res] ELSE hist)
  /\ UNCHANGED <<tracing, snap>>

\* a thread outside every cache call; locals hold nothing
Idle == [pc |-> "idle", key |-> 0, val |-> 0, entry |-> NULL, bkt |-> 0]

\* ------------------------------------------------- unw_cache_find_entry

\* hash = jhash(key, ...); the first entry of the bucket
FindStart(t, pc0, k, v) ==
  th' = [th EXCEPT ![t] = [pc |-> pc0, key |-> k, val |-> v,
                           entry |-> hfirst[Hash(k)], bkt |-> 0]]

\* what a traversal step reads from the entry it stands on. An entry that was
\* already handed to kfree() is freed memory: the read may see anything.
Deref(e, k) ==
  IF kfreed[e] = 0
  THEN {[match |-> (k = frame[e].pc), nxt |-> enext[e]]}
  ELSE {[match |-> m, nxt |-> n] : m \in BOOLEAN, n \in 0..nalloc}

\* unw_cache_add_entry without its early return: allocates and links whatever
\* the lookup found
AddAfterFindNoReturn(t, e) ==
  /\ th' = [th EXCEPT ![t].pc = "add_alloc", ![t].entry = NULL]
  /\ UNCHANGED ghostvars

\* unw_cache_add_entry after entry = unw_cache_find_entry(mods, &key):
\* if (entry) return;
AddAfterFind(t, e) ==
  IF e # NULL
  THEN /\ th' = [th EXCEPT ![t] = Idle]
       /\ Outcome("exists")
  ELSE /\ th' = [th EXCEPT ![t].pc = "add_alloc", ![t].entry = NULL]
       /\ UNCHANGED ghostvars

\* unw_cache_del_entry after entry = unw_cache_find_entry(mods, key):
\* if (entry) { hash_del_rcu; call_rcu }
DelAfterFind(t, e) ==
  IF e # NULL
  THEN /\ th' = [th EXCEPT ![t] = [Idle EXCEPT !.pc = "del_unlink", !.entry = e]]
       /\ Outcome("removed")
  ELSE /\ th' = [th EXCEPT ![t] = [Idle EXCEPT !.pc = "del_unlock"]]
       /\ Outcome("none")

\* a lookup made by a reader: the caller holds the result while it uses it
ReadAfterFind(t, e) ==
  /\ th' = [th EXCEPT ![t] = [Idle EXCEPT !.pc = "rd_use", !.entry = e]]
  /\ Outcome(IF e = NULL THEN "none" ELSE "found")

\* unw_cache_find_entry returns e to its caller
FindReturn(t, e) ==
  CASE th[t].pc = "rd_walk" -> ReadAfterFind(t, e)
    [] th[t].pc = "add_walk" -> AddAfterFind(t, e)
    [] th[t].pc = "del_walk" -> DelAfterFind(t, e)

\* one iteration of hash_for_each_possible_rcu
WalkStep(t) ==
  /\ th[t].pc \in {"rd_walk", "add_walk", "del_walk"}
  /\ LET e == th[t].entry
     IN IF e = NULL
        THEN FindReturn(t, NULL)
        ELSE \E d \in Deref(e, th[t].key) :
               IF d.match
               THEN FindReturn(t, e)
               ELSE /\ th' = [th EXCEPT ![t].entry = d.nxt]
                    /\ UNCHANGED ghostvars
  /\ UNCHANGED <<cachevars, rcuvars, modvars>>

\* a lookup as the frame walker and unw_cache_test make it:
\* rcu_read_lock(); e = unw_cache_find_entry(mods, &key);
ReadLockFind(t, k) ==
  /\ th[t].pc = "idle"
  /\ reg = "live"
  /\ inrcu' = [inrcu EXCEPT ![t] = TRUE]
  /\ FindStart(t, "rd_walk", k, 0)
  /\ Begin("find", k, 0)
  /\ UNCHANGED <<cachevars, rcu_cbs, syncwait, modvars>>

\* rcu_read_unlock by t
rcu_read_unlock(t) ==
  /\ inrcu' = [inrcu EXCEPT ![t] = FALSE]
  /\ rcu_cbs' = Quiesce(rcu_cbs, t)
  /\ syncwait' = [u \in Threads |-> syncwait[u] \ {t}]

\* ... use of e; rcu_read_unlock();
ReadUnlock(t) ==
  /\ th[t].pc = "rd_use"
  /\ rcu_read_unlock(t)
  /\ th' = [th EXCEPT ![t] = Idle]
  /\ UNCHANGED <<cachevars, ghostvars, modvars>>

\* -------------------------------------------------- unw_cache_add_entry

\* key = {.pc = frame->pc}; entry = unw_cache_find_entry(mods, &key);
\* no rcu_read_lock() is taken here
AddStart(t, k, v) ==
  /\ th[t].pc = "idle"
  /\ reg = "live"
  /\ FindStart(t, "add_walk", k, v)
  /\ Begin("add", k, v)
  /\ UNCHANGED <<cachevars, rcuvars, modvars>>

\* kzalloc without the copy of the frame: the entry stays zeroed
AddAllocNoCopy(t) ==
  /\ th[t].pc = "add_alloc"
  /\ nalloc < MaxEntries
  /\ nalloc' = nalloc + 1
  /\ th' = [th EXCEPT ![t].pc = "add_link", ![t].entry = nalloc + 1,
                      ![t].val = 0]
  /\ UNCHANGED <<frame, ghostvars>>
  /\ UNCHANGED <<hfirst, enext, epprev, kfreed, rcuvars, modvars>>

\* entry = kzalloc(...); if (entry) entry->frame = *frame;
AddAlloc(t) ==
  /\ th[t].pc = "add_alloc"
  /\ \/ \* kzalloc returns NULL: the call returns without an entry
        /\ th' = [th EXCEPT ![t] = Idle]
        /\ Outcome("nomem")
        /\ UNCHANGED <<frame, nalloc>>
     \/ /\ nalloc < MaxEntries
        /\ nalloc' = nalloc + 1
        /\ frame' = [frame EXCEPT ![nalloc + 1] = [pc |-> th[t].key, val |-> th[t].val]]
        /\ th' = [th EXCEPT ![t].pc = "add_link", ![t].entry = nalloc + 1,
                            ![t].val = 0]
        /\ UNCHANGED ghostvars
  /\ UNCHANGED <<hfirst, enext, epprev, kfreed, rcuvars, modvars>>

\* hash_add_rcu(mods->unw_cache, &entry->hlist, hash);
AddLink(t) ==
  /\ th[t].pc = "add_link"
  /\ hash_add_rcu(th[t].entry, Hash(th[t].key))
  /\ th' = [th EXCEPT ![t] = Idle]
  /\ Outcome("linked")
  /\ UNCHANGED <<frame, kfreed, nalloc, rcuvars, modvars>>

\* -------------------------------------------------- unw_cache_del_entry

\* rcu_read_lock(); entry = unw_cache_find_entry(mods, key);
DelStart(t, k) ==
  /\ th[t].pc = "idle"
  /\ reg = "live"
  /\ inrcu' = [inrcu EXCEPT ![t] = TRUE]
  /\ FindStart(t, "del_walk", k, 0)
  /\ Begin("del", k, 0)
  /\ UNCHANGED <<cachevars, rcu_cbs, syncwait, modvars>>

\* hash_del_rcu(&entry->hlist);
DelUnlink(t) ==
  /\ th[t].pc = "del_unlink"
  /\ hash_del_rcu(th[t].entry)
  /\ th' = [th EXCEPT ![t].pc = "del_callrcu"]
  /\ UNCHANGED <<frame, kfreed, nalloc, rcuvars, ghostvars, modvars>>

\* the entry is handed to kfree() at once instead of to call_rcu()
DelKfreeNow(t) ==
  /\ th[t].pc = "del_callrcu"
  /\ kfree(th[t].entry)
  /\ th' = [th EXCEPT ![t] = [Idle EXCEPT !.pc = "del_unlock"]]
  /\ UNCHANGED <<hfirst, epprev, nalloc, rcuvars, ghostvars, modvars>>

\* call_rcu(&entry->rcu, unw_cache_entry_rcu_free);
DelCallRcu(t) ==
  /\ th[t].pc = "del_callrcu"
  /\ rcu_cbs' = call_rcu(t, th[t].entry)
  /\ th' = [th EXCEPT ![t] = [Idle EXCEPT !.pc = "del_unlock"]]
  /\ UNCHANGED <<cachevars, inrcu, syncwait, ghostvars, modvars>>

\* rcu_read_unlock(); return
DelUnlock(t) ==
  /\ th[t].pc = "del_unlock"
  /\ rcu_read_unlock(t)
  /\ th' = [th EXCEPT ![t] = Idle]
  /\ UNCHANGED <<cachevars, ghostvars, modvars>>

\* ------------------------------------------------------ unw_cache_clear

\* rcu_read_lock(); hash_for_each_rcu starts at bucket 0
ClearEnter(t) ==
  /\ th[t].pc = "idle"
  /\ inrcu' = [inrcu EXCEPT ![t] = TRUE]
  /\ th' = [th EXCEPT ![t] = [Idle EXCEPT !.pc = "clr_loop", !.entry = hfirst[0]]]
  /\ Begin("clear", 0, 0)
  /\ UNCHANGED <<cachevars, rcu_cbs, syncwait>>

\* unw_cache_clear called on a live registry
ClearStart(t) ==
  /\ reg = "live"
  /\ ClearEnter(t)
  /\ UNCHANGED modvars

\* the loop of hash_for_each_rcu without hash_del_rcu
ClearStepKeep(t) ==
  /\ th[t].pc = "clr_loop"
  /\ th' = IF th[t].entry # NULL
           THEN [th EXCEPT ![t].pc = "clr_callrcu"]
           ELSE IF th[t].bkt + 1 \in Buckets
           THEN [th EXCEPT ![t].bkt = @ + 1, ![t].entry = hfirst[th[t].bkt + 1]]
           ELSE [th EXCEPT ![t] = [Idle EXCEPT !.pc = "clr_unlock"]]
  /\ UNCHANGED <<cachevars, rcuvars, ghostvars, modvars>>

\* the loop of hash_for_each_rcu: the next entry of this bucket, else the
\* next bucket, else the end of the table; on an entry, hash_del_rcu
ClearStep(t) ==
  /\ th[t].pc = "clr_loop"
  /\ IF th[t].entry # NULL
     THEN /\ hash_del_rcu(th[t].entry)
          /\ th' = [th EXCEPT ![t].pc = "clr_callrcu"]
     ELSE /\ UNCHANGED <<hfirst, enext, epprev>>
          /\ th' = IF th[t].bkt + 1 \in Buckets
                   THEN [th EXCEPT ![t].bkt = @ + 1,
                                   ![t].entry = hfirst[th[t].bkt + 1]]
                   ELSE [th EXCEPT ![t] = [Idle EXCEPT !.pc = "clr_unlock"]]
  /\ UNCHANGED <<frame, kfreed, nalloc, rcuvars, ghostvars, modvars>>

\* call_rcu(&entry->rcu, unw_cache_entry_rcu_free); then entry = next
ClearCallRcu(t) ==
  /\ th[t].pc = "clr_callrcu"
  /\ rcu_cbs' = call_rcu(t, th[t].entry)
  /\ th' = [th EXCEPT ![t].pc = "clr_loop", ![t].entry = enext[th[t].entry]]
  /\ UNCHANGED <<cachevars, inrcu, syncwait, ghostvars, modvars>>

\* rcu_read_unlock() with a synchronize_rcu() that waits for nobody
ClearUnlockNoSync(t) ==
  /\ th[t].pc = "clr_unlock"
  /\ inrcu' = [inrcu EXCEPT ![t] = FALSE]
  /\ rcu_cbs' = Quiesce(rcu_cbs, t)
  /\ syncwait' = [u \in Threads |-> IF u = t THEN {} ELSE syncwait[u] \ {t}]
  /\ th' = [th EXCEPT ![t].pc = "clr_sync"]
  /\ UNCHANGED <<cachevars, ghostvars, modvars>>

\* rcu_read_unlock(); synchronize_rcu() begins: it waits for the readers that
\* are inside a critical section now
ClearUnlockSync(t) ==
  /\ th[t].pc = "clr_unlock"
  /\ inrcu' = [inrcu EXCEPT ![t] = FALSE]
  /\ rcu_cbs' = Quiesce(rcu_cbs, t)
  /\ syncwait' = [u \in Threads |->
                    IF u = t THEN Readers \ {t} ELSE syncwait[u] \ {t}]
  /\ th' = [th EXCEPT ![t].pc = "clr_sync"]
  /\ UNCHANGED <<cachevars, ghostvars, modvars>>

\* synchronize_rcu() returns; unw_cache_clear returns
ClearSyncDone(t) ==
  /\ th[t].pc = "clr_sync"
  /\ syncwait[t] = {}
  /\ th' = [th EXCEPT ![t] = Idle]
  /\ Outcome("done")
  /\ UNCHANGED <<cachevars, rcuvars, modvars>>

\* --------------------------------------------- unw_cache_entry_rcu_free

\* the grace period of a queued callback is over: kfree(entry)
unw_cache_entry_rcu_free ==
  \E cb \in rcu_cbs :
    /\ cb.wait = {}
    /\ rcu_cbs' = rcu_cbs \ {cb}
    /\ kfree(cb.e)
    /\ UNCHANGED <<hfirst, epprev, nalloc, th, inrcu, syncwait,
                   ghostvars, modvars>>

\* ------------------------------------------------ the target's memory

\* words per page
PageSize == 2

\* the target's memory regions (task->mm), in address order, with holes
\* below, between and above them
VMAs == << [vm_start |-> 1 * PageSize, vm_end |-> 3 * PageSize],
           [vm_start |-> 4 * PageSize, vm_end |-> 5 * PageSize] >>

\* find_vma(mm, addr): the first region with addr < vm_end, which need not
\* contain addr; 0 (NULL) when there is none
find_vma(addr) ==
  LET hit == {i \in 1..Len(VMAs) : addr < VMAs[i].vm_end}
  IN IF hit = {} THEN 0 ELSE CHOOSE i \in hit : \A j \in hit : i <= j

\* addr lies inside region i
Covers(i, addr) == i # 0 /\ VMAs[i].vm_start <= addr /\ addr < VMAs[i].vm_end

\* vma_pages(vma)
vma_pages(i) == (VMAs[i].vm_end - VMAs[i].vm_start) \div PageSize

\* errno values
ENOMEM == 12
EFAULT == 14
\* the non-zero status of eh_frame_from_hdr when it finds no table
TableNotFound == -2

\* --------------------------------------------------------- resources

\* what one init_kunwind_stp_module call acquired and what was released of
\* it: pages pinned / put_page calls, vmap / vunmap calls, the page
\* descriptor array kmalloc / kfree calls
NoLed == [pins |-> 0, puts |-> 0, vmaps |-> 0, vunmaps |-> 0,
          arrs |-> 0, afrees |-> 0]

\* resources outside every linked module: held (leaked) and released more
\* often than acquired
NoLoose == [pages |-> 0, xputs |-> 0, maps |-> 0, xvunmaps |-> 0,
            arrs |-> 0, xfrees |-> 0]

Pos(n) == IF n > 0 THEN n ELSE 0

\* a module descriptor is freed: what its mapping still holds, or gave back
\* too often, stays behind
Abandon(l, led) ==
  [pages |-> l.pages + Pos(led.pins - led.puts),
   xputs |-> l.xputs + Pos(led.puts - led.pins),
   maps |-> l.maps + Pos(led.vmaps - led.vunmaps),
   xvunmaps |-> l.xvunmaps + Pos(led.vunmaps - led.vmaps),
   arrs |-> l.arrs + Pos(led.arrs - led.afrees),
   xfrees |-> l.xfrees + Pos(led.afrees - led.arrs)]

\* everything acquired was released, once
Balanced(led) ==
  /\ led.puts = led.pins
  /\ led.vunmaps = led.vmaps
  /\ led.afrees = led.arrs

\* the exit path without the put_page loop
UnwindKeepPages(label, led, npages) ==
  [led EXCEPT !.vunmaps = @ + (IF label >= 3 THEN 1 ELSE 0),
              !.afrees = @ + (IF label >= 1 THEN 1 ELSE 0)]

\* the exit labels of init_kunwind_stp_module, in fall-through order:
\* out_vunmap (3): vunmap; out_put_pages (2): put_page each of npages;
\* out_free_pages (1): kfree(pages); out (0)
Unwind(label, led, npages) ==
  [led EXCEPT !.vunmaps = @ + (IF label >= 3 THEN 1 ELSE 0),
              !.puts = @ + (IF label >= 2 THEN npages ELSE 0),
              !.afrees = @ + (IF label >= 1 THEN 1 ELSE 0)]

\* ------------------------------------------- init_kunwind_stp_module

\* the steps of init_kunwind_stp_module that can fail, as one call is made
\* to fail: kmalloc of the page array, __get_user_pages_unlocked, vmap,
\* eh_frame_from_hdr, get_user, the comparison of the two words read
Faults == {"none", "kmalloc", "pin", "vmap", "locator", "probe_read", "mismatch"}

\* what a read through a pointer outside the mapping can do
WildReads == {"oops", "differs", "same"}

\* the call dereferenced a bad pointer and never returned
Oops == [oops |-> TRUE, res |-> 0, fault |-> "oops", led |-> NoLed, mod |-> << >>]

\* the call left through the exit label `label` with result res
Leave(res, fault, label, led, npages) ==
  [oops |-> FALSE, res |-> res, fault |-> fault,
   led |-> Unwind(label, led, npages), mod |-> << >>]

\* eh_frame_from_hdr found the table: it follows the header
Located(linfo) ==
  [ubuf |-> linfo.eh_frame_hdr_ubuf + linfo.eh_frame_hdr_size, size |-> 1]

\* mod->npages and mod->pages of a module whose kmalloc'ed descriptor was
\* never written: whatever the memory held
Uninit == -1

\* init_kunwind_stp_module(task, linfo, mod, proc), made to fail at step f,
\* with `got` the result of __get_user_pages_unlocked when it is not
\* negative (if (res < 0) lets 0 through) and `wild` the outcome of a read
\* outside the mapping
init_kunwind_stp_module(linfo, f, got, wild) ==
  LET ubuf == linfo.eh_frame_hdr_ubuf
      vma == find_vma(ubuf)
  IN
  IF vma = 0 THEN Oops     \* vma_pages(NULL)
  ELSE
  LET start == VMAs[vma].vm_start
      led1 == [NoLed EXCEPT !.arrs = 1]
      led2 == [led1 EXCEPT !.pins = got]
      led3 == [led2 EXCEPT !.vmaps = 1]
      hinted == linfo.eh_frame_addr # 0 /\ linfo.eh_frame_size # 0
      offset == ubuf - start
      inside == 0 <= offset /\ offset < got * PageSize
      ehf == IF hinted
             THEN [ubuf |-> linfo.eh_frame_addr, size |-> linfo.eh_frame_size]
             ELSE Located(linfo)
      mod == [vma |-> vma, npages |-> got,
              ehf_hdr |-> [ubuf |-> ubuf, size |-> linfo.eh_frame_hdr_size,
                           offset |-> offset],
              ehf |-> [ubuf |-> ehf.ubuf, size |-> ehf.size,
                       offset |-> ehf.ubuf - start],
              is_dynamic |-> linfo.dynamic]
      \* the descriptor as it is before line 196: only elf_vma is set
      unset == [vma |-> vma, npages |-> Uninit,
                ehf_hdr |-> [ubuf |-> 0, size |-> 0, offset |-> 0],
                ehf |-> [ubuf |-> 0, size |-> 0, offset |-> 0],
                is_dynamic |-> FALSE]
  IN
  IF f = "kmalloc" THEN Leave(0 - ENOMEM, f, 0, NoLed, vma_pages(vma))
  ELSE IF f = "pin" THEN Leave(0 - EFAULT, f, 1, led1, vma_pages(vma))
  ELSE IF f = "vmap" \/ got = 0
       \* vmap of no page returns NULL; res holds the page count
       THEN [Leave(got, "vmap", 2, led2, got) EXCEPT !.mod = unset]
  ELSE IF ~hinted /\ ~inside /\ wild = "oops" THEN Oops
  ELSE IF ~hinted /\ f = "locator" THEN Leave(TableNotFound, f, 3, led3, got)
  ELSE IF f = "probe_read" \/ ~Covers(vma, ubuf)
       THEN Leave(0 - EFAULT, "probe_read", 3, led3, got)
  ELSE IF ~inside /\ wild = "oops" THEN Oops
  ELSE IF (inside /\ f = "mismatch") \/ (~inside /\ wild = "differs")
       \* res still holds get_user's 0
       THEN [Leave(0, "mismatch", 3, led3, got) EXCEPT !.mod = mod]
  ELSE [oops |-> FALSE, res |-> 0, fault |-> "none", led |-> led3, mod |-> mod]

\* ------------------------------------------- close_kunwind_stp_module

\* vunmap(mod->elf_vmap); put_page each of mod->npages pages; kfree(mod->pages),
\* charged to the ledger the module's pointers lead to
Release(led, npages) ==
  [led EXCEPT !.vunmaps = @ + 1, !.puts = @ + npages, !.afrees = @ + 1]

\* no module closed yet
NoClose == [opened |-> NoLed, released |-> NoLed]

\* the module's mapping and page array were already released when it was
\* linked: its pointers dangle, and what was allocated since may lie there
Dangling(m) == m.opened.afrees > 0

\* close_kunwind_stp_module on the first module of the list, followed by
\* list_del and kfree(mod). Dangling pointers reach either nothing live, or
\* what a module linked later was given at the same addresses (victim). The
\* teardown allocates nothing, so what it frees is not handed to another
\* module.
\* junk: what mod->npages reads as when it was never written.
CloseFirst(victim, junk) ==
  LET m == Head(modules)
      rest == Tail(modules)
      npages == IF m.npages = Uninit THEN junk ELSE m.npages
  IN /\ closed' = [opened |-> m.opened, released |-> Release(NoLed, npages)]
     /\ modules' = [i \in 1..Len(rest) |->
                      IF i = victim
                      THEN [rest[i] EXCEPT !.led = Release(@, npages)]
                      ELSE rest[i]]
     /\ loose' = Abandon(loose, IF victim = 0 THEN Release(m.led, npages)
                                ELSE m.led)

\* ------------------------------------------------------- population

\* the outcome of the latest init_kunwind_stp_module call of a population
\* call: the step that failed, the result, the resources at its return,
\* whether its module was linked, what the segment callback returned
NoLast == [fault |-> "nocall", res |-> 0, led |-> NoLed, linked |-> FALSE,
           cbret |-> 0]

\* no population call made yet
NoCall == [kind |-> "none", state |-> "returned", ret |-> 0, left |-> 0,
           len0 |-> 0, bad |-> FALSE, imgs |-> << >>, last |-> NoLast]

\* list_add_tail(&mod->list, &mods->stp_modules)
list_add_tail(o) ==
  Append(modules, [vma |-> o.mod.vma, npages |-> o.mod.npages,
                   ehf_hdr |-> o.mod.ehf_hdr, ehf |-> o.mod.ehf,
                   is_dynamic |-> o.mod.is_dynamic, led |-> o.led,
                   opened |-> o.led])

\* the load_info entries a caller may pass: a header inside the first
\* region, inside the second, in the hole below the second, above every
\* region; the table location given or left to eh_frame_from_hdr
HintAddrs == {VMAs[1].vm_start + 1, VMAs[2].vm_start,
              VMAs[2].vm_start - 1, VMAs[2].vm_end + 1}
Hints ==
  {[eh_frame_hdr_ubuf |-> a, eh_frame_hdr_size |-> 1,
    eh_frame_addr |-> t, eh_frame_size |-> t, dynamic |-> TRUE] :
     a \in HintAddrs, t \in {0, 1}}

\* init_modules_from_proc_info is called with n load segments
HintsStart(n) ==
  /\ reg = "live"
  /\ call.state = "returned"
  /\ Len(modules) + n <= MaxMods
  /\ call' = [NoCall EXCEPT !.kind = "hints", !.state = "running", !.left = n,
                             !.len0 = Len(modules)]
  /\ UNCHANGED <<reg, modules, loose, closed>>

\* one iteration of the loop of init_modules_from_proc_info, on the next
\* load segment linfo; gotmod: kmalloc of the module returned memory
HintsStep(linfo, gotmod, f, got, wild) ==
  /\ call.kind = "hints"
  /\ call.state = "running"
  /\ LET o == init_kunwind_stp_module(linfo, f, got, wild)
         vma == find_vma(linfo.eh_frame_hdr_ubuf)
         c == [call EXCEPT !.bad = @ \/ ~Covers(vma, linfo.eh_frame_hdr_ubuf)]
         last == [fault |-> o.fault, res |-> o.res, led |-> o.led,
                  linked |-> FALSE, cbret |-> 0]
     IN IF ~gotmod \/ o.oops
        THEN \* mod is not checked: init_kunwind_stp_module stores through it
             /\ call' = [c EXCEPT !.state = "oops",
                                  !.last = [NoLast EXCEPT !.fault = "oops"]]
             /\ UNCHANGED <<modules, loose>>
        ELSE IF o.res # 0
        THEN \* kfree(mod); return err;
             /\ call' = [c EXCEPT !.state = "returned", !.ret = o.res,
                                  !.last = last]
             /\ loose' = Abandon(loose, o.led)
             /\ UNCHANGED modules
        ELSE /\ modules' = list_add_tail(o)
             /\ call' = [c EXCEPT !.left = @ - 1,
                                  !.state = IF c.left = 1 THEN "returned"
                                            ELSE "running",
                                  !.ret = 0,
                                  !.last = [last EXCEPT !.linked = TRUE]]
             /\ UNCHANGED loose
  /\ UNCHANGED <<reg, closed>>

\* the program headers an image of the target may have
Phdr(type, vaddr) == [p_type |-> type, p_vaddr |-> vaddr, p_memsz |-> 1]
PhdrLists ==
  { <<Phdr("PT_LOAD", 0), Phdr("PT_GNU_EH_FRAME", 1), Phdr("PT_DYNAMIC", 0)>>,
    <<Phdr("PT_LOAD", 0), Phdr("PT_DYNAMIC", 0)>>,
    <<Phdr("PT_GNU_EH_FRAME", 0), Phdr("PT_GNU_EH_FRAME", 1), Phdr("PT_DYNAMIC", 0)>>,
    <<Phdr("PT_DYNAMIC", 0), Phdr("PT_GNU_EH_FRAME", 0), Phdr("PT_GNU_EH_FRAME", 1)>> }

\* the images iterate_phdr finds in the target: one per region
ImageLists ==
  { << [addr |-> VMAs[1].vm_start, phdr |-> p],
       [addr |-> VMAs[2].vm_start,
        phdr |-> <<Phdr("PT_LOAD", 0), Phdr("PT_GNU_EH_FRAME", 0)>>] >> :
      p \in PhdrLists }

\* the loop of add_module taking the first header of the list for an
\* unwind header, whatever its type
ScanPhdrAny(phdr, i, eh, dyn) == [eh |-> 1, dynamic |-> TRUE]

\* the loop of add_module over info->phdr from index i: eh is the index of
\* the PT_GNU_EH_FRAME header kept so far (0: none); it stops once a header
\* and PT_DYNAMIC have both been seen
RECURSIVE ScanPhdr(_, _, _, _)
ScanPhdr(phdr, i, eh, dyn) ==
  IF i > Len(phdr) THEN [eh |-> eh, dynamic |-> dyn]
  ELSE LET eh2 == IF phdr[i].p_type = "PT_GNU_EH_FRAME" THEN i ELSE eh
           dyn2 == IF phdr[i].p_type # "PT_GNU_EH_FRAME"
                      /\ phdr[i].p_type = "PT_DYNAMIC"
                   THEN TRUE ELSE dyn
       IN IF eh2 # 0 /\ dyn2
          THEN [eh |-> eh2, dynamic |-> dyn2]
          ELSE ScanPhdr(phdr, i + 1, eh2, dyn2)

\* the linfo add_module fills for an image whose kept header is phdr[eh]
FillLinfo(info, found) ==
  [eh_frame_hdr_ubuf |-> info.addr + info.phdr[found.eh].p_vaddr,
   eh_frame_hdr_size |-> info.phdr[found.eh].p_memsz,
   eh_frame_addr |-> 0, eh_frame_size |-> 0, dynamic |-> found.dynamic]

\* init_modules_from_task: iterate_phdr(add_module, task, mods) starts on
\* the images of the target
ScanStart(imgs) ==
  /\ reg = "live"
  /\ call.state = "returned"
  /\ Len(modules) + Len(imgs) <= MaxMods
  /\ call' = [NoCall EXCEPT !.kind = "scan", !.state = "running",
                             !.left = Len(imgs), !.len0 = Len(modules),
                             !.imgs = imgs]
  /\ UNCHANGED <<reg, modules, loose, closed>>

\* iterate_phdr passes the status of the callback on: it goes to the next
\* image on 0 and stops with the status otherwise
iterate_phdr(c, cbret) ==
  IF cbret # 0 THEN [c EXCEPT !.state = "returned", !.ret = cbret]
  ELSE [c EXCEPT !.left = @ - 1, !.ret = 0,
                 !.state = IF c.left = 1 THEN "returned" ELSE "running"]

\* add_module on the next image of the scan
add_module(gotmod, f, got, wild) ==
  /\ call.kind = "scan"
  /\ call.state = "running"
  /\ LET info == call.imgs[Len(call.imgs) - call.left + 1]
         found == ScanPhdr(info.phdr, 1, 0, FALSE)
     IN IF found.eh = 0
        THEN \* no module added: return 0
             /\ call' = iterate_phdr([call EXCEPT !.last =
                                        [NoLast EXCEPT !.fault = "skipped"]], 0)
             /\ UNCHANGED <<modules, loose>>
        ELSE IF ~gotmod
        THEN \* if (!mod) return -ENOMEM;
             /\ call' = iterate_phdr([call EXCEPT !.last =
                                        [NoLast EXCEPT !.fault = "modalloc",
                                                       !.cbret = 0 - ENOMEM]],
                                     0 - ENOMEM)
             /\ UNCHANGED <<modules, loose>>
        ELSE LET o == init_kunwind_stp_module(FillLinfo(info, found), f, got, wild)
                 last == [fault |-> o.fault, res |-> o.res, led |-> o.led,
                          linked |-> FALSE, cbret |-> 0]
             IN IF o.oops
                THEN /\ call' = [call EXCEPT !.state = "oops",
                                    !.last = [NoLast EXCEPT !.fault = "oops"]]
                     /\ UNCHANGED <<modules, loose>>
                ELSE IF o.res # 0
                THEN \* kfree(mod); return 0;
                     /\ call' = iterate_phdr([call EXCEPT !.last = last], 0)
                     /\ loose' = Abandon(loose, o.led)
                     /\ UNCHANGED modules
                ELSE /\ modules' = list_add_tail(o)
                     /\ call' = iterate_phdr(
                                  [call EXCEPT !.last = [last EXCEPT !.linked = TRUE]], 0)
                     /\ UNCHANGED loose
  /\ UNCHANGED <<reg, closed>>

\* -------------------------------------------------- release_unwind_info

\* one iteration of list_for_each_entry_safe: close_kunwind_stp_module(mod);
\* list_del(&mod->list); kfree(mod);
ReleaseModule(victim, junk) ==
  /\ reg \in {"live", "closing"}
  /\ call.state # "running"
  /\ \A t \in Threads : th[t].pc = "idle"
  /\ modules # << >>
  /\ victim \in (IF Dangling(Head(modules)) THEN 0..(Len(modules) - 1) ELSE {0})
  /\ junk \in (IF Head(modules).npages = Uninit THEN 0..1 ELSE {0})
  /\ CloseFirst(victim, junk)
  /\ reg' = "closing"
  /\ UNCHANGED call

\* the list is empty: unw_cache_clear(mods) is called
ReleaseClear ==
  /\ reg \in {"live", "closing"}
  /\ call.state # "running"
  /\ \A t \in Threads : th[t].pc = "idle"
  /\ modules = << >>
  /\ ClearEnter(1)
  /\ reg' = "clearing"
  /\ UNCHANGED <<modules, loose, call, closed>>

\* kfree(mods) without looking at what the registry still holds
ReleaseFreeEarly ==
  /\ reg \in {"live", "closing", "clearing"}
  /\ call.state # "running"
  /\ reg' = "freed"
  /\ UNCHANGED <<modules, loose, call, closed>>

\* unw_cache_clear has returned: kfree(mods)
ReleaseFree ==
  /\ reg = "clearing"
  /\ th[1].pc = "idle"
  /\ reg' = "freed"
  /\ UNCHANGED <<modules, loose, call, closed>>

\* ------------------------------------------------------- specifications


InitCommon ==
  /\ hfirst = [b \in Buckets |-> NULL]
  /\ enext = [e \in Ids |-> NULL]
  /\ epprev = [e \in Ids |-> NULL]
  /\ frame = [e \in Ids |-> [pc |-> 0, val |-> 0]]
  /\ kfreed = [e \in Ids |-> 0]
  /\ nalloc = 0
  /\ th = [t \in Threads |-> Idle]
  /\ inrcu = [t \in Threads |-> FALSE]
  /\ rcu_cbs = {}
  /\ syncwait = [t \in Threads |-> {}]
  /\ hist = << >>
  /\ snap = Table
  /\ reg = "live"
  /\ modules = << >>
  /\ loose = NoLoose
  /\ call = NoCall
  /\ closed = NoClose

\* the cache calls of thread t, step by step
CacheStep(t, K, V) ==
  \/ \E k \in K : ReadLockFind(t, k)
  \/ ReadUnlock(t)
  \/ WalkStep(t)
  \/ \E k \in K, v \in V : AddStart(t, k, v)
  \/ AddAlloc(t)
  \/ AddLink(t)
  \/ \E k \in K : DelStart(t, k)
  \/ DelUnlink(t)
  \/ DelCallRcu(t)
  \/ DelUnlock(t)
  \/ ClearStart(t)
  \/ ClearStep(t)
  \/ ClearCallRcu(t)
  \/ ClearUnlockSync(t)
  \/ ClearSyncDone(t)

\* unwind sessions of several threads on one registry
InitCache == InitCommon /\ tracing = FALSE
NextCache == (\E t \in Threads : CacheStep(t, PCs, {1})) \/ unw_cache_entry_rcu_free
SpecCache == InitCache /\ [][NextCache]_vars

\* one caller making cache calls one after the other, its calls recorded
InitSeq == InitCommon /\ tracing = FALSE
NextSeq == CacheStep(1, PCs, Vals) \/ unw_cache_entry_rcu_free \/ StartTrace
SpecSeq == InitSeq /\ [][NextSeq]_vars

\* sessions of several threads about one instruction pointer, then, once
\* they have all returned, one caller alone whose calls are recorded
InitAlone == InitCommon /\ tracing = FALSE
NextAlone ==
  \/ ~tracing /\ \E t \in Threads : CacheStep(t, {1}, {1})
  \/ tracing /\ CacheStep(1, {1}, {1})
  \/ unw_cache_entry_rcu_free
  \/ StartTrace
SpecAlone == InitAlone /\ [][NextAlone]_vars

\* a registry from creation to release: population by scanning and from
\* hints, then release_unwind_info on a cache that sessions have filled
CacheKey(i) == 2 * i - 1
InitMod ==
  /\ \E n \in {0, 1, 2} :
       /\ hfirst = [b \in Buckets |-> IF b = Hash(1) THEN n ELSE NULL]
       /\ enext = [e \in Ids |-> IF e <= n THEN e - 1 ELSE NULL]
       /\ epprev = [e \in Ids |-> IF e > n THEN NULL
                                  ELSE IF e = n THEN HeadRef(Hash(1))
                                  ELSE e + 1]
       /\ frame = [e \in Ids |-> IF e <= n THEN [pc |-> CacheKey(e), val |-> 1]
                                 ELSE [pc |-> 0, val |-> 0]]
       /\ nalloc = n
  /\ kfreed = [e \in Ids |-> 0]
  /\ th = [t \in Threads |-> Idle]
  /\ inrcu = [t \in Threads |-> FALSE]
  /\ rcu_cbs = {}
  /\ syncwait = [t \in Threads |-> {}]
  /\ tracing = FALSE
  /\ hist = << >>
  /\ snap = [b \in Buckets |-> << >>]
  /\ reg = "live"
  /\ modules = << >>
  /\ loose = NoLoose
  /\ call = NoCall
  /\ closed = NoClose

\* the inputs of one init_kunwind_stp_module call that its outcome depends
\* on: the page count only once pinning is reached, the outcome of a read
\* outside the mapping only when the header lies outside the pinned pages
Relevant(ubuf, gotmod, f, got, wild) ==
  LET vma == find_vma(ubuf)
  IN /\ vma # 0 => got <= vma_pages(vma)
     /\ (vma = 0 \/ ~gotmod \/ f \in {"kmalloc", "pin"}) => (got = 1 /\ wild = "same")
     /\ got = 0 => (f = "vmap" /\ wild = "same")
     /\ ~gotmod => f = "none"
     /\ (vma # 0 /\ VMAs[vma].vm_start <= ubuf
           /\ ubuf < VMAs[vma].vm_start + got * PageSize) => wild = "same"

Populate ==
  \/ /\ \E n \in 1..MaxMods : HintsStart(n)
     /\ UNCHANGED <<cachevars, th, rcuvars, ghostvars>>
  \/ /\ call.kind = "hints" /\ call.state = "running"
     /\ \E linfo \in Hints, gotmod \in BOOLEAN, f \in Faults,
           got \in 0..2, wild \in WildReads :
          /\ Relevant(linfo.eh_frame_hdr_ubuf, gotmod, f, got, wild)
          /\ HintsStep(linfo, gotmod, f, got, wild)
     /\ UNCHANGED <<cachevars, th, rcuvars, ghostvars>>
  \/ /\ \E imgs \in ImageLists : ScanStart(imgs)
     /\ UNCHANGED <<cachevars, th, rcuvars, ghostvars>>
  \/ /\ call.kind = "scan" /\ call.state = "running"
     /\ \E gotmod \in BOOLEAN, f \in Faults, got \in 0..2, wild \in WildReads :
          /\ Relevant(call.imgs[Len(call.imgs) - call.left + 1].addr, gotmod, f, got, wild)
          /\ add_module(gotmod, f, got, wild)
     /\ UNCHANGED <<cachevars, th, rcuvars, ghostvars>>

release_unwind_info ==
  \/ \E victim \in 0..MaxMods, junk \in 0..1 :
       ReleaseModule(victim, junk) /\ UNCHANGED <<cachevars, th, rcuvars, ghostvars>>
  \/ ReleaseClear
  \/ ReleaseFree /\ UNCHANGED <<cachevars, th, rcuvars, ghostvars>>
  \/ ClearStep(1)
  \/ ClearCallRcu(1)
  \/ ClearUnlockSync(1)
  \/ ClearSyncDone(1)
  \/ unw_cache_entry_rcu_free

NextMod == Populate \/ release_unwind_info
SpecMod == InitMod /\ [][NextMod]_vars

\* ------------------------------------------------------------------ C1

\* the recorded caller has made insert(ip, A) and then insert(ip, B), A # B,
\* and both have returned
TwoInserts ==
  /\ tracing
  /\ th[1].pc = "idle"
  /\ Len(hist) = 2
  /\ hist[1].op = "add" /\ hist[2].op = "add"
  /\ hist[1].key = hist[2].key
  /\ hist[1].val # hist[2].val

\* find(ip) returns the entry holding A and the second call changed nothing
FirstInsertStands ==
  LET e == unw_cache_find_entry(hist[1].key)
  IN /\ e # NULL
     /\ frame[e] = [pc |-> hist[1].key, val |-> hist[1].val]
     /\ Table = snap

\* C1 as stated: for every registry, after insert(ip, A) then insert(ip, B)
\* with A # B, find(ip) returns the entry holding A and the second call
\* changed nothing in the cache.
C1_AsStated == TwoInserts => FirstInsertStands

\* C1, amended: when the first insert(ip, A) linked its entry (no entry for ip
\* existed and kzalloc succeeded), then after insert(ip, B) with A # B,
\* find(ip) returns the entry holding A and the second call changed nothing in
\* the cache.
C1_FirstWriterWins ==
  (TwoInserts /\ hist[1].res = "linked") => FirstInsertStands

\* both inserts returned, the first having linked A, the second having found it
C1_Witness ==
  /\ TwoInserts
  /\ hist[1].res = "linked"
  /\ hist[2].res = "exists"

\* ------------------------------------------------------------------ C2

\* C2: in every reachable state, whatever the interleaving of concurrent
\* insert(ip, *) calls, there is at most one linked entry per instruction
\* pointer.
C2_NoDoubleEntry ==
  \A k \in PCs : Cardinality(LinkedFor(k)) <= 1

\* ------------------------------------------------------------------ C3

\* C3: an entry that a thread reached or obtained from find inside a
\* read-side critical section is not freed while that thread is still inside
\* the section.
C3_ReclaimSafety ==
  \A t \in Threads :
    (inrcu[t] /\ th[t].entry # NULL) => kfreed[th[t].entry] = 0

\* a reader still uses an entry that a remove, which has returned, unlinked
\* and queued for freeing
C3_Witness ==
  \E t \in Threads, cb \in rcu_cbs :
    /\ th[t].pc = "rd_use"
    /\ th[t].entry = cb.e
    /\ ~Linked(cb.e)
    /\ cb.by # t
    /\ th[cb.by].pc = "idle"

\* ------------------------------------------------------------------ C4

\* the step at which the latest init_kunwind_stp_module call failed
FailedAt == call.last.fault
ResolveFailed == FailedAt \in Faults \ {"none"}

\* C4: when the word read from the target differs from the word read
\* through the mapping, init_kunwind_stp_module returns a non-success
\* result and its module is not linked.
C4_MismatchFails ==
  FailedAt = "mismatch" => (call.last.res # 0 /\ ~call.last.linked)

\* ------------------------------------------------------------------ C5

\* C5: a successful init_kunwind_stp_module is matched by a close that
\* releases as many pages as it pinned; a failed one (at any of its steps)
\* returns with no page pinned and with the mapping and the page array
\* released.
C5_ResourceBalance ==
  /\ ResolveFailed => Balanced(call.last.led)
  /\ (closed # NoClose /\ closed.opened.afrees = 0)
       => /\ closed.released.puts = closed.opened.pins
          /\ closed.released.vunmaps = closed.opened.vmaps
          /\ closed.released.afrees = closed.opened.arrs

\* a module of a successful init was closed, after a later init had failed
\* with pages pinned and had returned
C5_Witness ==
  /\ closed # NoClose
  /\ closed.opened.afrees = 0
  /\ closed.opened.pins = 2
  /\ FailedAt \in {"vmap", "locator", "probe_read", "mismatch"}
  /\ call.last.led.pins > 0

\* ------------------------------------------------------------------ C6

\* C6: from creation over population to release_unwind_info, the pages and
\* the mapping of every module are released exactly once; those of a linked
\* module are released at teardown, not before and not a second time.
C6_ExactlyOnce ==
  /\ \A i \in 1..Len(modules) :
       modules[i].led.puts = 0 /\ modules[i].led.vunmaps = 0
  /\ loose.xputs = 0 /\ loose.xvunmaps = 0
  /\ reg = "freed" => (loose.pages = 0 /\ loose.maps = 0)

\* ------------------------------------------------------------------ C7

\* C7: when init_modules_from_proc_info has met a hint whose header address
\* no region covers, it returns a failure and no module of that call is in
\* the registry.
C7_UnmappedHint ==
  (call.kind = "hints" /\ call.bad /\ reg = "live")
    => /\ call.state = "returned"
       /\ call.ret # 0
       /\ Len(modules) = call.len0

\* ------------------------------------------------------------------ C8

\* C8: when init_kunwind_stp_module fails for an image of a scan, whatever
\* the failure, add_module returns 0 and the module is not linked.
C8_ScanSwallows ==
  (call.kind = "scan" /\ ResolveFailed)
    => (call.last.cbret = 0 /\ ~call.last.linked)

\* ------------------------------------------------------------------ C9

\* C9: when init_kunwind_stp_module fails for a hint, whatever the failure,
\* init_modules_from_proc_info stops with a non-success result and the
\* module of that hint is not linked.
C9_HintsPropagate ==
  (call.kind = "hints" /\ ResolveFailed)
    => /\ call.state = "returned"
       /\ call.ret # 0
       /\ ~call.last.linked

\* ----------------------------------------------------------------- C10

\* [base, base + mapped_size) of a module
Base(m) == VMAs[m.vma].vm_start
MappedEnd(m) == Base(m) + m.npages * PageSize

\* C10: no two modules of the registry have overlapping ranges.
C10_NonOverlap ==
  \A i, j \in 1..Len(modules) :
    i < j => (MappedEnd(modules[i]) <= Base(modules[j])
              \/ MappedEnd(modules[j]) <= Base(modules[i]))

\* ----------------------------------------------------------------- C11

\* the size of what is mapped for a module
MappedSize(m) == m.npages * PageSize
WithinMapping(m, sec) == sec.offset >= 0 /\ sec.offset + sec.size <= MappedSize(m)

\* C11: for every linked module, the unwind-header section and the
\* unwind-table section lie inside the pages mapped for it: offset >= 0 and
\* offset + size <= npages * PAGE_SIZE.
C11_SectionBounds ==
  \A i \in 1..Len(modules) :
    WithinMapping(modules[i], modules[i].ehf_hdr)
      /\ WithinMapping(modules[i], modules[i].ehf)

\* ----------------------------------------------------------------- C12

\* a lookup by a reader, as opposed to the lookups of remove and clear
Reading(u) == th[u].pc \in {"rd_walk", "rd_use"}

\* C12: when unw_cache_clear returns, every reader that was inside a
\* read-side critical section when clear unlinked an entry has left it: no
\* entry clear queued for freeing still waits for a reader; and no reader
\* inside its section stands on or holds an entry that was freed.
C12_ClearBarrier ==
  /\ \A t \in Threads :
       (th[t].pc = "clr_sync" /\ syncwait[t] = {})
         => \A cb \in rcu_cbs : cb.by = t => cb.wait = {}
  /\ \A u \in Threads :
       (Reading(u) /\ th[u].entry # NULL) => kfreed[th[u].entry] = 0

\* clear has unlinked an entry that a reader still holds, and waits in
\* synchronize_rcu for that reader
C12_Witness ==
  \E t \in Threads, cb \in rcu_cbs :
    /\ th[t].pc = "clr_sync"
    /\ cb.by = t
    /\ \E u \in cb.wait \cap syncwait[t] :
         th[u].pc = "rd_use" /\ th[u].entry = cb.e

\* ----------------------------------------------------------------- C13

\* the recorded caller's latest call was unw_cache_clear, which has returned
AfterClear ==
  /\ tracing
  /\ th[1].pc = "idle"
  /\ hist # << >>
  /\ hist[Len(hist)].op = "clear"

\* the recorded caller has made clear and then insert(ip, F); both returned
ClearThenInsert ==
  /\ tracing
  /\ th[1].pc = "idle"
  /\ Len(hist) = 2
  /\ hist[1].op = "clear" /\ hist[2].op = "add"

Emptied == \A k \in PCs : unw_cache_find_entry(k) = NULL

InsertFound ==
  LET e == unw_cache_find_entry(hist[2].key)
  IN e # NULL /\ frame[e] = [pc |-> hist[2].key, val |-> hist[2].val]

\* C13 as stated: after unw_cache_clear has returned, find(ip) finds nothing
\* for every ip, and a following insert(ip, F) makes find(ip) return F.
C13_AsStated ==
  /\ AfterClear => Emptied
  /\ ClearThenInsert => InsertFound

\* C13, amended: after unw_cache_clear has returned, find(ip) finds nothing
\* for every ip, and a following insert(ip, F) whose kzalloc succeeded makes
\* find(ip) return F.
C13_ClearEmpties ==
  /\ AfterClear => Emptied
  /\ (ClearThenInsert /\ hist[2].res # "nomem") => InsertFound

\* clear has run on a cache that had held an entry, and the insert after it
\* has linked a new one
C13_Witness ==
  /\ ClearThenInsert
  /\ hist[2].res = "linked"
  /\ nalloc = 2

\* ----------------------------------------------------------------- C15

\* the recorded caller, alone on the cache, has made a call that returned
Returned(n) ==
  /\ tracing
  /\ Len(hist) = n
  /\ hist[n].res # "running"

\* C15: after unw_cache_del_entry(ip) has unlinked an entry and returned, a
\* find(ip) that starts then finds nothing; the entry was not freed inside
\* the remove; a remove that found no entry leaves the table as it was.
C15_RemoveTwoPhase ==
  /\ (Returned(2) /\ hist[1].op = "del" /\ hist[1].res = "removed"
        /\ hist[2].op = "find")
       => hist[2].res = "none"
  /\ \A t \in Threads :
       th[t].pc = "del_unlock"
         => \A cb \in rcu_cbs : (cb.by = t /\ t \in cb.wait) => kfreed[cb.e] = 0
  /\ (Returned(1) /\ th[1].pc = "idle" /\ hist[1].op = "del"
        /\ hist[1].res = "none")
       => Table = snap

\* ----------------------------------------------------------------- C16

\* an entry's frame has been written
Written(e) == frame[e].pc \in PCs /\ frame[e].val \in Vals

\* C16: an entry is linked only with its frame written; a written frame is
\* never changed as long as the entry is not freed; so a reader's find
\* returns nothing or an entry holding the frame its insert gave it.
C16_NoPartialEntry ==
  /\ [](\A e \in Ids : Linked(e) => Written(e))
  /\ [](\A u \in Threads :
          (th[u].pc = "rd_use" /\ th[u].entry # NULL) => Written(th[u].entry))
  /\ [][\A e \in Ids :
          (Written(e) /\ kfreed'[e] = 0) => frame'[e] = frame[e]]_vars

\* a reader holds an entry it found while an insert is between writing its
\* entry and linking it
C16_Witness ==
  \E u, t \in Threads :
    /\ th[u].pc = "rd_use"
    /\ th[u].entry # NULL
    /\ Linked(th[u].entry)
    /\ th[t].pc = "add_link"
    /\ ~Linked(th[t].entry)

\* ----------------------------------------------------------------- C20

\* C20: whatever the interleaving of removes and clears, an entry is queued
\* for freeing at most once and freed at most once.
C20_NoDoubleReclaim ==
  \A e \in Ids :
    Cardinality({cb \in rcu_cbs : cb.e = e}) + kfreed[e] <= 1

\* ----------------------------------------------------------------- C14

\* C14: release_unwind_info closes, unlinks and frees every module, then
\* runs unw_cache_clear to its return, and only then frees the registry: the
\* clear starts on an empty module list with no page pinned, and the
\* registry is freed with no module linked, no page pinned, no cache entry
\* linked and the clear returned.
C14_TeardownOrder ==
  /\ reg \in {"clearing", "freed"}
       => (modules = << >> /\ loose.pages = 0 /\ loose.maps = 0)
  /\ reg = "freed"
       => /\ \A e \in Ids : ~Linked(e)
          /\ th[1].pc = "idle"
          /\ syncwait[1] = {}

\* the registry was freed after a module with pinned pages was closed and a
\* cache of two entries was cleared
C14_Witness ==
  /\ reg = "freed"
  /\ closed.opened.pins > 0
  /\ closed.released.puts = closed.opened.pins
  /\ nalloc = 2

\* ----------------------------------------------------------------- C17

\* C17: when vmap returns NULL after the pages were pinned, whatever their
\* number, init_kunwind_stp_module returns a non-success result, its module
\* is not linked, and every pinned page was put before it returned.
C17_MapFailure ==
  FailedAt = "vmap"
    => /\ call.last.res # 0
       /\ ~call.last.linked
       /\ call.last.led.puts = call.last.led.pins

\* ----------------------------------------------------------------- C18

\* the image add_module is called on next
CurImage == call.imgs[Len(call.imgs) - call.left + 1]
EhHeaders(phdr) == {i \in 1..Len(phdr) : phdr[i].p_type = "PT_GNU_EH_FRAME"}

\* C18: add_module on an image without PT_GNU_EH_FRAME header returns 0 (the
\* scan goes on), acquires nothing and leaves the module list and the cache
\* as they were.
C18_NoHeaderSkipped ==
  [][(/\ call.kind = "scan" /\ call.state = "running"
      /\ EhHeaders(CurImage.phdr) = {}
      /\ call' # call)
       => /\ modules' = modules
          /\ loose' = loose
          /\ cachevars' = cachevars
          /\ call'.last.cbret = 0
          /\ call'.ret = 0
          /\ call'.state = (IF call.left = 1 THEN "returned" ELSE "running")
          /\ call'.left = call.left - 1]_vars

\* add_module has skipped the first image of a scan, which goes on
C18_Witness ==
  /\ call.kind = "scan"
  /\ call.state = "running"
  /\ call.left = 1
  /\ call.last.fault = "skipped"
  /\ EhHeaders(call.imgs[1].phdr) = {}

\* ----------------------------------------------------------------- C19

\* the first PT_GNU_EH_FRAME header of a list that has one
FirstEh(phdr) ==
  phdr[CHOOSE i \in EhHeaders(phdr) : \A j \in EhHeaders(phdr) : i <= j]

\* the modules of the registry made for image info
ModulesOf(info) ==
  {i \in 1..Len(modules) :
     modules[i].vma = find_vma(info.addr) /\ modules[i].npages # Uninit}

\* C19: for an image with more than one PT_GNU_EH_FRAME header, the module
\* add_module makes uses the address and size of the first of them, and
\* there is at most one module for the image.
C19_FirstHeaderWins ==
  (call.kind = "scan" /\ Cardinality(EhHeaders(call.imgs[1].phdr)) > 1)
    => /\ Cardinality(ModulesOf(call.imgs[1])) <= 1
       /\ \A i \in ModulesOf(call.imgs[1]) :
            /\ modules[i].ehf_hdr.ubuf
                 = call.imgs[1].addr + FirstEh(call.imgs[1].phdr).p_vaddr
            /\ modules[i].ehf_hdr.size = FirstEh(call.imgs[1].phdr).p_memsz

====
